---- MODULE Spec2Model ----
(***************************************************************************)
(* Model of backend/petri.py (the synthesis-rule engine on the incidence   *)
(* matrix, its undo stack and log) and of the HTTP handlers of             *)
(* backend/main.py that call it.                                           *)
(*                                                                         *)
(* A matrix is a sequence of rows, each row a sequence of integers.  Row   *)
(* and column indices are 0-based as in the source: Cell(M, r, c) is       *)
(* M[r, c] of the numpy array.  Python's None is the empty sequence (a     *)
(* live matrix always has at least one row here: init_net is called with   *)
(* num_places >= 1).  The wall-clock "ts" field of a log entry is left out *)
(* of the entry: it is never read by the code.                             *)
(***************************************************************************)
EXTENDS Integers, Sequences, FiniteSets, TLC

\* ---------------------------------------------------------------- bounds
MaxRows       == 4      \* rules are applied while the live matrix has at most MaxRows rows
MaxCols       == 2      \* ... and at most MaxCols columns
MaxUndo       == 2      \* apply_rule is called while the undo stack holds fewer than MaxUndo snapshots
MaxLog        == 2      \* init_net is called while the log holds fewer than MaxLog entries
MaxFnRows     == 3      \* the pure functions are called on matrices of at most MaxFnRows rows
MaxFnCols     == 2      \* ... and at most MaxFnCols columns (and on the seed matrix)
MaxFnCells    == 8      \* ... and at most MaxFnCells cells
MaxRegrow     == 1      \* add_row / add_column are called again on their own result at most MaxRegrow times
MaxGrowCells  == 16     \* ... on results of at most MaxGrowCells cells
MaxAttempts   == 1      \* with max_attempts in 0..MaxAttempts
MaxPasses     == 2      \* the fallback scan is followed for at most MaxPasses passes
MaxRwRows     == 3      \* the rule functions are called directly on matrices of at most MaxRwRows rows
MaxRwCols     == 2      \* ... at most MaxRwCols columns
MaxRwCells    == 6      \* ... and at most MaxRwCells cells

None == <<>>

\* ------------------------------------------------------- numpy helpers
NumRows(M) == Len(M)
NumCols(M) == IF Len(M) = 0 THEN 0 ELSE Len(M[1])
RowIdx(M)  == 0 .. (NumRows(M) - 1)
ColIdx(M)  == 0 .. (NumCols(M) - 1)
Cell(M, r, c) == M[r + 1][c + 1]
RowOf(M, r)   == M[r + 1]
ColOf(M, c)   == [i \in 1 .. NumRows(M) |-> M[i][c + 1]]

Min(S) == CHOOSE x \in S : \A y \in S : x <= y

\* np.vstack([M, row]) and np.column_stack([M, col])
VStack(M, row) == Append(M, row)
ColumnStack_in_front(M, col) == [i \in 1 .. NumRows(M) |-> <<col[i]>> \o M[i]]
ColumnStack(M, col) == [i \in 1 .. NumRows(M) |-> Append(M[i], col[i])]

\* np.where(M[:, c] == v)[0] as a set of row indices
RowsWith(M, c, v) == {r \in RowIdx(M) : Cell(M, r, c) = v}

\* -------------------------------------------------- is_valid_matrix
AllRowCells(M, r, S) == \A c \in ColIdx(M) : Cell(M, r, c) \in S
AllColCells(M, c, S) == \A r \in RowIdx(M) : Cell(M, r, c) \in S

\* rows whose cells are all in {-1,0}: np.all((matrix==-1)|(matrix==0),axis=1)
NonPositiveRows(M) == {r \in RowIdx(M) : AllRowCells(M, r, {-1, 0})}
\* rows whose cells are all in {1,0}
NonNegativeRows(M) == {r \in RowIdx(M) : AllRowCells(M, r, {1, 0})}

\* is_valid_matrix counting the source and sink candidates along axis 0
is_valid_matrix_axis0(M) ==
    /\ \A r \in RowIdx(M) : AllRowCells(M, r, {1, 0, -1})
    /\ ~ (\E c \in ColIdx(M) : AllColCells(M, c, {0}))
    /\ ~ (\E r \in RowIdx(M) : AllRowCells(M, r, {0}))
    /\ Cardinality({c \in ColIdx(M) : AllColCells(M, c, {-1, 0})}) = 1
    /\ Cardinality({c \in ColIdx(M) : AllColCells(M, c, {1, 0})}) = 1
    /\ \A c \in ColIdx(M) : /\ \E r \in RowIdx(M) : Cell(M, r, c) = 1
                            /\ \E r \in RowIdx(M) : Cell(M, r, c) = -1

\* is_valid_matrix without the last test (a +1 and a -1 in every column)
is_valid_matrix_no_column_check(M) ==
    /\ \A r \in RowIdx(M) : AllRowCells(M, r, {1, 0, -1})
    /\ ~ (\E c \in ColIdx(M) : AllColCells(M, c, {0}))
    /\ ~ (\E r \in RowIdx(M) : AllRowCells(M, r, {0}))
    /\ Cardinality(NonPositiveRows(M)) = 1
    /\ Cardinality(NonNegativeRows(M)) = 1

is_valid_matrix(M) ==
    /\ \A r \in RowIdx(M) : AllRowCells(M, r, {1, 0, -1})
    /\ ~ (\E c \in ColIdx(M) : AllColCells(M, c, {0}))
    /\ ~ (\E r \in RowIdx(M) : AllRowCells(M, r, {0}))
    /\ Cardinality(NonPositiveRows(M)) = 1
    /\ Cardinality(NonNegativeRows(M)) = 1
    /\ \A c \in ColIdx(M) : /\ \E r \in RowIdx(M) : Cell(M, r, c) = 1
                            /\ \E r \in RowIdx(M) : Cell(M, r, c) = -1

\* get_source_sink_indices raises IndexError when np.where(...)[0] is empty
\* and [0] is taken of it
get_source_sink_raises(M) ==
    NonPositiveRows(M) = {} \/ NonNegativeRows(M) = {}

\* get_source_sink_indices with the two masks exchanged
get_source_sink_indices_swapped(M) ==
    <<Min(NonNegativeRows(M)), Min(NonPositiveRows(M))>>

\* get_source_sink_indices with the source mask used for the sink too
get_source_sink_indices_same_mask(M) ==
    <<Min(NonPositiveRows(M)), Min(NonPositiveRows(M))>>

\* get_source_sink_indices: <<src, snk>>, the first index of each kind
get_source_sink_indices(M) ==
    <<Min(NonPositiveRows(M)), Min(NonNegativeRows(M))>>

generate_initial_matrix == << <<1, 0, 1>>, <<-1, 1, 0>>, <<0, -1, -1>> >>

\* ------------------------------------- create_pn_from_incidence_mat
\* Places are named p<i>, transitions t<j>; a name is the pair <<"p", i>>.
PlaceName(i) == <<"p", i>>
TransName(j) == <<"t", j>>

\* add_arc_from_to(place, transition) is called for a cell -1,
\* add_arc_from_to(transition, place) for a cell 1
HasArcPT(M, r, c) == Cell(M, r, c) = -1
\* an arc transition -> place for every nonzero cell
HasArcTP_any_nonzero(M, r, c) == Cell(M, r, c) # 0
HasArcTP(M, r, c) == Cell(M, r, c) = 1

\* the arcs of the net, as <<source, target>> pairs
ArcsOf(M) ==
    {<<PlaceName(x[1]), TransName(x[2])>> :
        x \in {y \in RowIdx(M) \X ColIdx(M) : HasArcPT(M, y[1], y[2])}}
    \cup
    {<<TransName(x[2]), PlaceName(x[1])>> :
        x \in {y \in RowIdx(M) \X ColIdx(M) : HasArcTP(M, y[1], y[2])}}

NetOf(M) ==
    << {PlaceName(r) : r \in RowIdx(M)},
       {TransName(c) : c \in ColIdx(M)},
       ArcsOf(M) >>

\* The matrix rebuilt from the net by pm4py's incidence_matrix.construct:
\* places and transitions are ordered by name, which is the index order
\* for fewer than ten of each; a cell is (#arcs t->p) - (#arcs p->t).
ConstructedMatrix(M) ==
    [i \in 1 .. NumRows(M) |->
        [j \in 1 .. NumCols(M) |->
            (IF HasArcTP(M, i - 1, j - 1) THEN 1 ELSE 0)
          - (IF HasArcPT(M, i - 1, j - 1) THEN 1 ELSE 0)]]

\* rows with all cells <= 0 / >= 0: np.all(m <= 0, axis=1), np.all(m >= 0, axis=1)
RowsLeqZero(M) == {r \in RowIdx(M) : \A c \in ColIdx(M) : Cell(M, r, c) <= 0}
RowsGeqZero(M) == {r \in RowIdx(M) : \A c \in ColIdx(M) : Cell(M, r, c) >= 0}

\* create_pn_from_incidence_mat(M, return_net_dict=True) raises IndexError
\* at [0][0] when no row of m is <= 0 or none is >= 0
create_pn_raises(M) ==
    LET m == ConstructedMatrix(M)
    IN  RowsLeqZero(m) = {} \/ RowsGeqZero(m) = {}

\* a Marking is the sequence of its <<place, tokens>> pairs
MarkingOn(i) == << <<PlaceName(i), 1>> >>

\* create_pn_from_incidence_mat taking the final marking from the source row
create_pn_from_incidence_mat_fm_on_source(M) ==
    LET m == ConstructedMatrix(M)
    IN  [petri |-> NetOf(M),
         im    |-> MarkingOn(Min(RowsLeqZero(m))),
         fm    |-> MarkingOn(Min(RowsLeqZero(m)))]

\* d["petri"], d["im"], d["fm"]
create_pn_from_incidence_mat(M) ==
    LET m == ConstructedMatrix(M)
    IN  [petri |-> NetOf(M),
         im    |-> MarkingOn(Min(RowsLeqZero(m))),
         fm    |-> MarkingOn(Min(RowsGeqZero(m)))]

\* ------------------------------------------------ free-choice checks
InNodes(M, t) == RowsWith(M, t, -1)

\* np.array_equal(a, b) or len(np.intersect1d(a, b)) == 0
EqualOrDisjoint(a, b) == a = b \/ a \cap b = {}

is_fc_net_from_mat(M) ==
    \A t1 \in ColIdx(M) : \A t2 \in ColIdx(M) :
        t1 < t2 => EqualOrDisjoint(InNodes(M, t1), InNodes(M, t2))

is_fc_net_after_addition(M, added) ==
    IF added = "column"
    THEN LET new_t == NumCols(M) - 1
         IN  \A t \in 0 .. (NumCols(M) - 2) :
                EqualOrDisjoint(InNodes(M, new_t), InNodes(M, t))
    ELSE LET new_p == NumRows(M) - 1
             aff   == {c \in ColIdx(M) : Cell(M, new_p, c) = -1}
         IN  \A t1 \in aff : \A t2 \in aff :
                t1 < t2 => EqualOrDisjoint(InNodes(M, t1), InNodes(M, t2))

\* ------------------------------------------------- growth candidates
Coeffs(n) == [1 .. n -> {-1, 0, 1}]

RECURSIVE SumTo(_, _)
SumTo(f, n) == IF n = 0 THEN 0 ELSE f[n] + SumTo(f, n - 1)

\* np.sum(coeff[:,None]*matrix, axis=0): the combination of the rows
RowCombination(M, coeff) ==
    [j \in 1 .. NumCols(M) |->
        SumTo([i \in 1 .. NumRows(M) |-> coeff[i] * M[i][j]], NumRows(M))]

\* np.sum(coeff * matrix, axis=1): the combination of the columns
ColCombination(M, coeff) ==
    [i \in 1 .. NumRows(M) |->
        SumTo([j \in 1 .. NumCols(M) |-> coeff[j] * M[i][j]], NumCols(M))]

Negated(v) == [i \in 1 .. Len(v) |-> 0 - v[i]]
SeqRange(v) == {v[i] : i \in 1 .. Len(v)}

\* existing = set(map(tuple, matrix))
ExistingRows(M) == {M[i] : i \in 1 .. NumRows(M)}

\* validate_new_row without "1 in new_row and -1 in new_row"
validate_new_row_without_sign_check(new_row, existing_rows) ==
    /\ SeqRange(new_row) \subseteq {1, 0, -1}
    /\ ~ (SeqRange(new_row) \subseteq {0})
    /\ Negated(new_row) \notin existing_rows

validate_new_row(new_row, existing_rows) ==
    /\ SeqRange(new_row) \subseteq {1, 0, -1}
    /\ ~ (SeqRange(new_row) \subseteq {0})
    /\ 1 \in SeqRange(new_row)
    /\ -1 \in SeqRange(new_row)
    /\ Negated(new_row) \notin existing_rows

validate_new_column(new_col, src, snk) ==
    /\ SeqRange(new_col) \subseteq {1, 0, -1}
    /\ ~ (SeqRange(new_col) \subseteq {0})
    /\ 1 \in SeqRange(new_col)
    /\ -1 \in SeqRange(new_col)
    /\ new_col[src + 1] \in {0, -1}
    /\ new_col[snk + 1] \in {0, 1}

\* ---------------------------------------------- find_connected_cells
\* sorted(S) as a sequence
RECURSIVE Sorted(_)
Sorted(S) == IF S = {} THEN <<>> ELSE <<Min(S)>> \o Sorted(S \ {Min(S)})

\* cells = [(r,c) for r ... for c ... if arr[r,c]==target_value]
CellsEqual(M, v) == {x \in RowIdx(M) \X ColIdx(M) : Cell(M, x[1], x[2]) = v}

\* cells[0]: the first cell in row-major order
FirstCell(cells) ==
    CHOOSE x \in cells : \A y \in cells :
        x[1] < y[1] \/ (x[1] = y[1] /\ x[2] <= y[2])

\* set(range(cols)) - set(uniq): the columns equal to a column of lower index
DupCols(M) == {c \in ColIdx(M) : \E c2 \in ColIdx(M) : c2 < c /\ ColOf(M, c2) = ColOf(M, c)}
\* set(range(rows)) - set(uniq): the rows equal to a row of lower index
DupRows(M) == {r \in RowIdx(M) : \E r2 \in RowIdx(M) : r2 < r /\ RowOf(M, r2) = RowOf(M, r)}

\* the candidate cell lists find_connected_cells may be left with after the
\* duplicate tie-break (random.choice over dup)
FilteredCells(M, v) ==
    IF v = -1
    THEN IF DupCols(M) # {}
         THEN {{x \in CellsEqual(M, v) : x[2] = c0} : c0 \in DupCols(M)}
         ELSE {CellsEqual(M, v)}
    ELSE IF DupRows(M) # {}
         THEN {{x \in CellsEqual(M, v) : x[1] = r0} : r0 \in DupRows(M)}
         ELSE {CellsEqual(M, v)}

\* one pass of the "grow the region" loop body, repeated while changed
RECURSIVE GrowRegion(_, _, _, _)
GrowRegion(M, v, rs, cs) ==
    LET cs2 == cs \cup {c \in ColIdx(M) : \E r \in rs : Cell(M, r, c) = v}
        rs2 == rs \cup {r \in RowIdx(M) : \E c \in cs2 : Cell(M, r, c) = v}
    IN  IF cs2 = cs /\ rs2 = rs THEN <<rs, cs>> ELSE GrowRegion(M, v, rs2, cs2)

\* The possible outcomes of find_connected_cells(M, v): exc is "none" and
\* rows, cols the sorted index lists, or exc is "IndexError" (cells[0] of an
\* empty list after the tie-break).
find_connected_cells(M, v) ==
    IF CellsEqual(M, v) = {}
    THEN {[exc |-> "none", rows |-> <<>>, cols |-> <<>>]}
    ELSE {IF cells = {}
          THEN [exc |-> "IndexError", rows |-> <<>>, cols |-> <<>>]
          ELSE LET seed == FirstCell(cells)
                   reg  == GrowRegion(M, v, {seed[1]}, {seed[2]})
               IN  [exc |-> "none", rows |-> Sorted(reg[1]), cols |-> Sorted(reg[2])]
          : cells \in FilteredCells(M, v)}

\* ------------------------------------------------ abstraction rules
NonEmptySubsets(S) == SUBSET S \ {{}}

\* apply_abs_rule leaving the cells of R x C as they are
AbsRewrite_without_zeroing(M, R, C) ==
    LET p_row  == [j \in 1 .. NumCols(M) |-> IF (j - 1) \in C THEN 1 ELSE 0]
        withP  == VStack(M, p_row)
        t_col  == [i \in 1 .. NumRows(withP) |->
                      IF i = NumRows(withP) THEN -1
                      ELSE IF (i - 1) \in R THEN 1 ELSE 0]
    IN  ColumnStack(withP, t_col)

\* the rewrite of apply_abs_rule for the index sets R, C actually used
AbsRewrite(M, R, C) ==
    LET zeroed == [i \in 1 .. NumRows(M) |-> [j \in 1 .. NumCols(M) |->
                      IF (i - 1) \in R /\ (j - 1) \in C THEN 0 ELSE M[i][j]]]
        p_row  == [j \in 1 .. NumCols(M) |-> IF (j - 1) \in C THEN 1 ELSE 0]
        withP  == VStack(zeroed, p_row)
        t_col  == [i \in 1 .. NumRows(withP) |->
                      IF i = NumRows(withP) THEN -1
                      ELSE IF (i - 1) \in R THEN 1 ELSE 0]
    IN  ColumnStack(withP, t_col)

\* apply_abs_rule(mat, row_indices, col_indices, select_random_subset):
\* the set of outcomes; random.randint(1, 0) raises ValueError
apply_abs_rule(M, row_indices, col_indices, select_random_subset) ==
    IF select_random_subset
    THEN IF Len(row_indices) = 0 \/ Len(col_indices) = 0
         THEN {[exc |-> "ValueError", mat |-> M]}
         ELSE {[exc |-> "none", mat |-> AbsRewrite(M, R, C)] :
                  <<R, C>> \in NonEmptySubsets(SeqRange(row_indices))
                               \X NonEmptySubsets(SeqRange(col_indices))}
    ELSE {[exc |-> "none", mat |-> AbsRewrite(M, SeqRange(row_indices), SeqRange(col_indices))]}

\* apply_dual_abs_rule with the new place consuming from the new transition
DualAbsRewrite_corner_minus_one(M, R, C) ==
    LET zeroed == [i \in 1 .. NumRows(M) |-> [j \in 1 .. NumCols(M) |->
                      IF (i - 1) \in R /\ (j - 1) \in C THEN 0 ELSE M[i][j]]]
        t_col  == [i \in 1 .. NumRows(M) |-> IF (i - 1) \in R THEN -1 ELSE 0]
        withT  == ColumnStack(zeroed, t_col)
        p_row  == [j \in 1 .. NumCols(withT) |->
                      IF j = NumCols(withT) THEN -1
                      ELSE IF (j - 1) \in C THEN -1 ELSE 0]
    IN  VStack(withT, p_row)

DualAbsRewrite(M, R, C) ==
    LET zeroed == [i \in 1 .. NumRows(M) |-> [j \in 1 .. NumCols(M) |->
                      IF (i - 1) \in R /\ (j - 1) \in C THEN 0 ELSE M[i][j]]]
        t_col  == [i \in 1 .. NumRows(M) |-> IF (i - 1) \in R THEN -1 ELSE 0]
        withT  == ColumnStack(zeroed, t_col)
        p_row  == [j \in 1 .. NumCols(withT) |->
                      IF j = NumCols(withT) THEN 1
                      ELSE IF (j - 1) \in C THEN -1 ELSE 0]
    IN  VStack(withT, p_row)

\* apply_dual_abs_rule: keep is "row" or "col"; the column list is sampled
\* when keep is "row" or there is one column, the row list otherwise
apply_dual_abs_rule(M, row_indices, col_indices, select_random_subset) ==
    IF select_random_subset
    THEN UNION {
           IF keep = "row" \/ Len(col_indices) = 1
           THEN IF Len(col_indices) = 0
                THEN {[exc |-> "ValueError", mat |-> M]}
                ELSE {[exc |-> "none", mat |-> DualAbsRewrite(M, SeqRange(row_indices), C)] :
                         C \in NonEmptySubsets(SeqRange(col_indices))}
           ELSE IF Len(row_indices) = 0
                THEN {[exc |-> "ValueError", mat |-> M]}
                ELSE {[exc |-> "none", mat |-> DualAbsRewrite(M, R, SeqRange(col_indices))] :
                         R \in NonEmptySubsets(SeqRange(row_indices))}
           : keep \in {"row", "col"}}
    ELSE {[exc |-> "none", mat |-> DualAbsRewrite(M, SeqRange(row_indices), SeqRange(col_indices))]}

\* ------------------------------------------------ add_row / add_column
\* validate_matrix(cand, added) up to the call of the soundness oracle:
\* "False" when the free-choice check fails, "IndexError" when
\* is_sound_from_mat_by_woflan fails to build the net dictionary, "oracle"
\* when woflan.apply is reached and its answer decides
\* validate_matrix with the operands of its "and" exchanged
validate_matrix_oracle_first(cand, added) ==
    IF create_pn_raises(cand) THEN "IndexError" ELSE "oracle"

\* is_fc_net_after_addition(...) and is_sound_from_mat_by_woflan(...): "False"
\* when the first operand is false, else the net is built (IndexError) and
\* the oracle is called ("oracle": the value is the oracle's answer)
validate_matrix(cand, added) ==
    IF ~ is_fc_net_after_addition(cand, added) THEN "False"
    ELSE IF create_pn_raises(cand) THEN "IndexError"
    ELSE "oracle"

\* what one loop iteration of add_row does with the candidate row new
RowVerdict(M, new) ==
    IF validate_new_row(new, ExistingRows(M))
    THEN validate_matrix(VStack(M, new), "row")
    ELSE "False"

\* what one loop iteration of add_column does with the candidate column new
ColVerdict(M, new) ==
    IF validate_new_column(new, get_source_sink_indices(M)[1], get_source_sink_indices(M)[2])
    THEN validate_matrix(ColumnStack(M, new), "column")
    ELSE "False"

RandomRows(M) == {RowCombination(M, k) : k \in Coeffs(NumRows(M))}
RandomCols(M) == {ColCombination(M, k) : k \in Coeffs(NumCols(M))}

\* The outcomes of add_row(M) with the default attempt budget: a candidate
\* the oracle accepts is returned, or the IndexError of the net build
\* propagates.  (The rows scanned by the fallback are among RandomRows.)
add_row(M) ==
    {[exc |-> "none", mat |-> VStack(M, new)] :
        new \in {x \in RandomRows(M) : RowVerdict(M, x) = "oracle"}}
    \cup
    {[exc |-> "IndexError", mat |-> M] :
        new \in {x \in RandomRows(M) : RowVerdict(M, x) = "IndexError"}}

add_column(M) ==
    IF get_source_sink_raises(M)
    THEN {[exc |-> "IndexError", mat |-> M]}
    ELSE {[exc |-> "none", mat |-> ColumnStack(M, new)] :
             new \in {x \in RandomCols(M) : ColVerdict(M, x) = "oracle"}}
         \cup
         {[exc |-> "IndexError", mat |-> M] :
             new \in {x \in RandomCols(M) : ColVerdict(M, x) = "IndexError"}}

\* ------------------------------------------------------ module state
VARIABLES
    matrix,       \* _current_matrix
    net,          \* _current_net: <<places, transitions, arcs>>
    im,           \* _current_im
    fm,           \* _current_fm
    log,          \* _log
    undo_stack,   \* _undo_stack: <<matrix, net, im, fm, log>> snapshots
    last,         \* the operation called last
    exc,          \* the exception it raised, "none" if it returned
    http,         \* status of the HTTP response, 0 for a direct call
    rt,           \* observer of an apply/undo round trip (see SpecUndo)
    gs,           \* the frame of a running add_row / add_column (see SpecGrowth)
    fn,           \* a call of a pure function: op, input, argument, output (see SpecFn)
    heap          \* the matrix and log objects behind the module state (see SpecAlias)

live == <<matrix, net, im, fm, log>>
globals == <<matrix, net, im, fm, log, undo_stack, last, exc, http>>
engine == <<matrix, net, im, fm, log, undo_stack, last, exc, http, heap>>
vars == <<matrix, net, im, fm, log, undo_stack, last, exc, http, rt, gs, fn, heap>>

RtIdle == [phase |-> "idle", matrix |-> None, log |-> <<>>, applied |-> 0, undone |-> 0,
           moved |-> FALSE]
GsIdle == [pc |-> "idle", kind |-> "row", mat |-> None, max_attempts |-> 0,
           oracle |-> "any", attempts |-> 0, scan |-> {}, passes |-> 0,
           fallback_steps |-> 0, result |-> None, regrown |-> 0,
           asked |-> None, answer |-> FALSE, oracle_calls |-> 0]
FnIdle == [op |-> "none", in |-> None, arg |-> "", exc |-> "none", out |-> <<>>]

\* The objects the module globals refer to: objs maps a reference to the
\* value of the object, m is the reference held by _current_matrix (0 for
\* None), l the one held by _log, stack the <<matrix, log>> references held
\* by the tuples on _undo_stack.  At import _log is a fresh empty list.
HeapInit == [objs |-> [i \in {1} |-> <<>>], m |-> 0, l |-> 1, stack |-> <<>>]

GlobalsInit ==
    /\ matrix = None
    /\ net = None
    /\ im = None
    /\ fm = None
    /\ log = <<>>
    /\ undo_stack = <<>>
    /\ last = "none"
    /\ exc = "none"
    /\ http = 0

EngineInit ==
    /\ heap = HeapInit
    /\ GlobalsInit

RuleNames == {"psiA", "psiT", "psiP", "psiD", "psiX"}

Init ==
    /\ EngineInit
    /\ rt = RtIdle
    /\ gs = GsIdle
    /\ fn = FnIdle

\* The operations of petri.py as functions of the module state st, a record
\* of the six module globals; each yields the state it leaves and the
\* exception it raises ("none" when it returns).
State == [matrix |-> matrix, net |-> net, im |-> im, fm |-> fm,
          log |-> log, undo_stack |-> undo_stack]

Outcome(st, e) == [st |-> st, exc |-> e]

reset_history(st) ==
    [st EXCEPT !.matrix = None, !.net = None, !.im = None, !.fm = None,
               !.log = <<>>, !.undo_stack = <<>>]

\* the chain matrix init_net builds: mat[i,i] = -1, mat[i+1,i] = 1
ChainMatrix(num_places, num_transitions) ==
    [i \in 1 .. num_places |-> [j \in 1 .. num_transitions |->
        IF i = j THEN -1 ELSE IF i = j + 1 THEN 1 ELSE 0]]

\* init_net numbering its log entry len(_log) instead of len(_log) + 1
init_net_ids_from_zero(st, num_places, num_transitions) ==
    IF num_transitions >= num_places
    THEN Outcome(st, "IndexError")
    ELSE LET mat == ChainMatrix(num_places, num_transitions)
             d   == create_pn_from_incidence_mat(mat)
         IN  IF create_pn_raises(mat)
             THEN Outcome([st EXCEPT !.matrix = mat], "IndexError")
             ELSE Outcome([st EXCEPT
                     !.matrix = mat, !.net = d.petri, !.im = d.im, !.fm = d.fm,
                     !.log = Append(st.log,
                                [id |-> Len(st.log),
                                 action |-> <<"init", num_places, num_transitions>>])],
                     "none")

init_net(st, num_places, num_transitions) ==
    IF num_transitions >= num_places
    THEN Outcome(st, "IndexError")       \* mat[i+1, i] out of bounds, nothing assigned yet
    ELSE LET mat == ChainMatrix(num_places, num_transitions)
             d   == create_pn_from_incidence_mat(mat)
         IN  IF create_pn_raises(mat)
             THEN Outcome([st EXCEPT !.matrix = mat], "IndexError")
             ELSE Outcome([st EXCEPT
                     !.matrix = mat, !.net = d.petri, !.im = d.im, !.fm = d.fm,
                     !.log = Append(st.log,
                                [id |-> Len(st.log) + 1,
                                 action |-> <<"init", num_places, num_transitions>>])],
                     "none")

\* the dispatch of apply_rule: outcomes [exc, mat] of the rule function
Dispatch(M, rule_name) ==
    CASE rule_name = "psiA" ->
            UNION {IF f.exc # "none" THEN {[exc |-> f.exc, mat |-> M]}
                   ELSE apply_abs_rule(M, f.rows, f.cols, TRUE)
                   : f \in find_connected_cells(M, -1)}
      [] rule_name = "psiT" -> add_column(M)
      [] rule_name = "psiP" -> add_row(M)
      [] rule_name = "psiD" ->
            UNION {IF f.exc # "none" THEN {[exc |-> f.exc, mat |-> M]}
                   ELSE apply_dual_abs_rule(M, f.rows, f.cols, TRUE)
                   : f \in find_connected_cells(M, 1)}
      [] OTHER -> {[exc |-> "ValueError", mat |-> M]}

\* what apply_rule does after the dispatch returned the matrix new: the net
\* is rebuilt, then building the log entry reads the undefined name
\* target_id, so the entry is never appended
AfterDispatch(st, new) ==
    IF create_pn_raises(new)
    THEN Outcome([st EXCEPT !.matrix = new], "IndexError")
    ELSE LET d == create_pn_from_incidence_mat(new)
         IN  Outcome([st EXCEPT !.matrix = new, !.net = d.petri,
                                !.im = d.im, !.fm = d.fm], "NameError")

\* the set of outcomes of apply_rule(rule_name)
apply_rule(st, rule_name) ==
    IF st.matrix = None
    THEN {Outcome(st, "RuntimeError")}
    ELSE LET pushed == [st EXCEPT !.undo_stack =
                           Append(st.undo_stack,
                                  <<st.matrix, st.net, st.im, st.fm, st.log>>)]
         IN  {IF d.exc # "none" THEN Outcome(pushed, d.exc)
              ELSE AfterDispatch(pushed, d.mat)
              : d \in Dispatch(st.matrix, rule_name)}

\* pop_undo_snapshot restoring everything but the matrix
pop_undo_snapshot_keeps_matrix(st) ==
    IF st.undo_stack = <<>>
    THEN Outcome(st, "UndoEmpty")
    ELSE LET top == st.undo_stack[Len(st.undo_stack)]
         IN  Outcome([matrix |-> st.matrix, net |-> top[2], im |-> top[3],
                      fm |-> top[4], log |-> top[5],
                      undo_stack |-> SubSeq(st.undo_stack, 1, Len(st.undo_stack) - 1)],
                     "none")

\* pop_undo_snapshot clearing the live state when there is nothing to undo
pop_undo_snapshot_clears(st) ==
    IF st.undo_stack = <<>>
    THEN Outcome([st EXCEPT !.matrix = None, !.net = None, !.im = None,
                            !.fm = None, !.log = <<>>], "UndoEmpty")
    ELSE LET top == st.undo_stack[Len(st.undo_stack)]
         IN  Outcome([matrix |-> top[1], net |-> top[2], im |-> top[3],
                      fm |-> top[4], log |-> top[5],
                      undo_stack |-> SubSeq(st.undo_stack, 1, Len(st.undo_stack) - 1)],
                     "none")

pop_undo_snapshot(st) ==
    IF st.undo_stack = <<>>
    THEN Outcome(st, "UndoEmpty")
    ELSE LET top == st.undo_stack[Len(st.undo_stack)]
         IN  Outcome([matrix |-> top[1], net |-> top[2], im |-> top[3],
                      fm |-> top[4], log |-> top[5],
                      undo_stack |-> SubSeq(st.undo_stack, 1, Len(st.undo_stack) - 1)],
                     "none")

\* serialize_graph reads _current_net.places: AttributeError on None
serialize_graph_raises(st) == st.net = None

\* ------------------------------------------------------------ actions
Effect(o, op, status) ==
    /\ matrix' = o.st.matrix
    /\ net' = o.st.net
    /\ im' = o.st.im
    /\ fm' = o.st.fm
    /\ log' = o.st.log
    /\ undo_stack' = o.st.undo_stack
    /\ last' = op
    /\ exc' = o.exc
    /\ http' = status

BecomesObserved(o, op, status) == Effect(o, op, status) /\ UNCHANGED <<gs, fn, heap>>

Becomes(o, op, status) == BecomesObserved(o, op, status) /\ UNCHANGED rt

\* the explored part of the state space
WithinBounds(o) ==
    /\ NumRows(o.st.matrix) <= MaxRows
    /\ NumCols(o.st.matrix) <= MaxCols
    /\ Len(o.st.undo_stack) <= MaxUndo
    /\ Len(o.st.log) <= MaxLog

\* the (num_places, num_transitions) init_net is called with: two chains,
\* a net with a place left unconnected, and more transitions than fit
InitArgs == {<<2, 1>>, <<3, 2>>, <<3, 1>>, <<2, 2>>}

\* apply_rule on an initialized net pushes a snapshot whatever its outcome
RoomToApply == matrix = None \/ Len(undo_stack) < MaxUndo

\* direct calls of the petri module
Call_reset_history ==
    Becomes(Outcome(reset_history(State), "none"), "reset_history", 0)

Call_init_net ==
    \E a \in InitArgs :
        LET o == init_net(State, a[1], a[2])
        IN  WithinBounds(o) /\ Becomes(o, "init_net", 0)

Call_apply_rule ==
    /\ RoomToApply
    /\ \E r \in RuleNames : \E o \in apply_rule(State, r) :
          WithinBounds(o) /\ Becomes(o, "apply_rule", 0)

Call_pop_undo_snapshot ==
    Becomes(pop_undo_snapshot(State), "pop_undo_snapshot", 0)

\* the handlers of main.py
\* POST /init: reset_history, init_net, serialize_graph; any exception -> 400
Post_init ==
    \E a \in InitArgs :
        LET o == init_net(reset_history(State), a[1], a[2])
        IN  /\ WithinBounds(o)
            /\ IF o.exc = "none" /\ serialize_graph_raises(o.st)
               THEN Becomes(Outcome(o.st, "AttributeError"), "init_net", 400)
               ELSE Becomes(o, "init_net", IF o.exc = "none" THEN 200 ELSE 400)

\* POST /apply: push_undo_snapshot (a no-op), apply_rule, serialize_graph
Post_apply ==
    /\ RoomToApply
    /\ \E r \in RuleNames : \E o \in apply_rule(State, r) :
          /\ WithinBounds(o)
          /\ IF o.exc = "none" /\ serialize_graph_raises(o.st)
             THEN Becomes(Outcome(o.st, "AttributeError"), "apply_rule", 400)
             ELSE Becomes(o, "apply_rule", IF o.exc = "none" THEN 200 ELSE 400)

\* POST /undo: only UndoEmpty is caught (400); serialize_graph's
\* AttributeError would leave the handler (500)
Post_undo ==
    LET o == pop_undo_snapshot(State)
    IN  IF o.exc = "UndoEmpty" THEN Becomes(o, "pop_undo_snapshot", 400)
        ELSE IF serialize_graph_raises(o.st)
             THEN Becomes(Outcome(o.st, "AttributeError"), "pop_undo_snapshot", 500)
             ELSE Becomes(o, "pop_undo_snapshot", 200)

\* GET /status
Get_status ==
    IF serialize_graph_raises(State)
    THEN Becomes(Outcome(State, "AttributeError"), "status", 500)
    ELSE Becomes(Outcome(State, "none"), "status", 200)

Next ==
    \/ Call_reset_history
    \/ Call_init_net
    \/ Call_apply_rule
    \/ Call_pop_undo_snapshot
    \/ Post_init
    \/ Post_apply
    \/ Post_undo
    \/ Get_status

Spec == Init /\ [][Next]_vars

\* ------------------------------------------ the objects behind the state
\* SpecAlias runs the direct calls of the petri module and follows, next to
\* the values, which list and array objects the globals and the snapshots
\* refer to: an in-place change of an object (_log.append, _log.clear)
\* shows through every reference to it.
HeapRefs(h) ==
    {h.l} \cup (IF h.m = 0 THEN {} ELSE {h.m})
          \cup {h.stack[i][1] : i \in 1 .. Len(h.stack)}
          \cup {h.stack[i][2] : i \in 1 .. Len(h.stack)}

\* the references in the order l, m, then the stack from the bottom
RefSeq(h) ==
    <<h.l, h.m>> \o [j \in 1 .. (2 * Len(h.stack)) |-> h.stack[(j + 1) \div 2][2 - (j % 2)]]

\* the number a reference gets when the objects are numbered in the order
\* RefSeq reaches them (0 stays 0)
RefRank(h, r) ==
    IF r = 0 THEN 0
    ELSE LET q     == RefSeq(h)
             first == Min({j \in 1 .. Len(q) : q[j] = r})
         IN  Cardinality({q[j] : j \in 1 .. first} \ {0})

\* objects no reference leads to are dropped, and the remaining ones are
\* renumbered: a reference is only a name for its object
Collect(h) ==
    [objs  |-> [k \in {RefRank(h, r) : r \in HeapRefs(h)} |->
                   h.objs[CHOOSE r \in HeapRefs(h) : RefRank(h, r) = k]],
     m     |-> RefRank(h, h.m),
     l     |-> RefRank(h, h.l),
     stack |-> [i \in 1 .. Len(h.stack) |->
                   <<RefRank(h, h.stack[i][1]), RefRank(h, h.stack[i][2])>>]]

FreshRef(h) ==
    Min({i \in 1 .. (Cardinality(DOMAIN h.objs) + 1) : i \notin DOMAIN h.objs})

\* the heap with a new object of value v, at FreshRef(h)
NewObject(h, v) ==
    [h EXCEPT !.objs = [i \in (DOMAIN h.objs) \cup {FreshRef(h)} |->
                           IF i = FreshRef(h) THEN v ELSE h.objs[i]]]

\* the copy being the array itself
CopyOfMatrix_alias(h) == [heap |-> h, ref |-> h.m]

\* _current_matrix.copy(), mat.copy(): a new array
CopyOfMatrix(h) == [heap |-> NewObject(h, h.objs[h.m]), ref |-> FreshRef(h)]

\* the snapshot holding the live list itself instead of a copy
CopyOfLog_alias(h) == [heap |-> h, ref |-> h.l]

\* list(_log): a new list
CopyOfLog(h) == [heap |-> NewObject(h, h.objs[h.l]), ref |-> FreshRef(h)]

\* reset_history: _log.clear() and _undo_stack.clear() work in place
H_reset_history(h) ==
    Collect([h EXCEPT !.objs[h.l] = <<>>, !.m = 0, !.stack = <<>>])

\* init_net with the outcome o: mat is a new array; _log.append works in place
H_init_net(h, num_places, num_transitions, o) ==
    IF num_transitions >= num_places
    THEN h
    ELSE LET h1 == [NewObject(h, o.st.matrix) EXCEPT !.m = FreshRef(h)]
         IN  Collect(IF o.exc = "none"
                     THEN [h1 EXCEPT !.objs[h.l] = Append(@, o.st.log[Len(o.st.log)])]
                     ELSE h1)

\* apply_rule on the state st with the outcome o: the snapshot tuple holds a
\* copy of the matrix and a copy of the log list; a rule function returns a
\* new array (a rule always adds a row or a column, so the matrix differs
\* exactly when it was assigned)
H_apply_rule(h, st, o) ==
    IF st.matrix = None
    THEN h
    ELSE LET cm     == CopyOfMatrix(h)
             cl     == CopyOfLog(cm.heap)
             pushed == [cl.heap EXCEPT !.stack = Append(@, <<cm.ref, cl.ref>>)]
         IN  Collect(IF o.st.matrix # st.matrix
                     THEN [NewObject(pushed, o.st.matrix) EXCEPT !.m = FreshRef(pushed)]
                     ELSE pushed)

\* pop_undo_snapshot: the globals take over the objects of the popped tuple
H_pop_undo_snapshot(h) ==
    IF h.stack = <<>>
    THEN h
    ELSE LET top == h.stack[Len(h.stack)]
         IN  Collect([h EXCEPT !.m = top[1], !.l = top[2],
                               !.stack = SubSeq(h.stack, 1, Len(h.stack) - 1)])

\* the values of the module state are the values of the objects referred to
HeapAgrees ==
    /\ heap.objs[heap.l] = log
    /\ (heap.m = 0) <=> (matrix = None)
    /\ heap.m # 0 => heap.objs[heap.m] = matrix
    /\ Len(heap.stack) = Len(undo_stack)

Obj_reset_history ==
    /\ Effect(Outcome(reset_history(State), "none"), "reset_history", 0)
    /\ heap' = H_reset_history(heap)
    /\ UNCHANGED <<rt, gs, fn>>

Obj_init_net ==
    \E a \in InitArgs :
        LET o == init_net(State, a[1], a[2])
        IN  /\ WithinBounds(o)
            /\ Effect(o, "init_net", 0)
            /\ heap' = H_init_net(heap, a[1], a[2], o)
            /\ UNCHANGED <<rt, gs, fn>>

Obj_apply_rule ==
    /\ RoomToApply
    /\ \E r \in RuleNames : \E o \in apply_rule(State, r) :
          /\ WithinBounds(o)
          /\ Effect(o, "apply_rule", 0)
          /\ heap' = H_apply_rule(heap, State, o)
    /\ UNCHANGED <<rt, gs, fn>>

Obj_pop_undo_snapshot ==
    /\ Effect(pop_undo_snapshot(State), "pop_undo_snapshot", 0)
    /\ heap' = H_pop_undo_snapshot(heap)
    /\ UNCHANGED <<rt, gs, fn>>

NextAlias ==
    \/ Obj_reset_history
    \/ Obj_init_net
    \/ Obj_apply_rule
    \/ Obj_pop_undo_snapshot

SpecAlias == Init /\ [][NextAlias]_vars

\* ------------------------------------- the rule functions, called directly
\* SpecRewrite calls apply_abs_rule and apply_dual_abs_rule with any index
\* lists, and add_row and add_column, on a caller's array: heap.m refers to
\* the array passed, fn.in is its value before the call, fn.out is
\* <<reference of the array returned, row_indices, col_indices>>.
RwInputs ==
    UNION {[1 .. s[1] -> [1 .. s[2] -> {-1, 0, 1}]] :
              s \in {x \in (1 .. MaxRwRows) \X (1 .. MaxRwCols) : x[1] * x[2] <= MaxRwCells}}

InitRewrite ==
    /\ GlobalsInit
    /\ rt = RtIdle
    /\ gs = GsIdle
    /\ \E M \in RwInputs :
          /\ fn = [op |-> "none", in |-> M, arg |-> "", exc |-> "none", out |-> <<>>]
          /\ heap = [objs |-> [i \in {1} |-> M], m |-> 1, l |-> 0, stack |-> <<>>]

BoolStr(b) == IF b THEN "True" ELSE "False"

\* the first rows x cols cells of N
TopLeft(N, rows, cols) == [i \in 1 .. rows |-> [j \in 1 .. cols |-> N[i][j]]]

\* new = mat.copy(); new[r,c] = 0 in place; the result is a new array built
\* by np.vstack / np.column_stack, whose first cells are those of new
ObjRewrite(h, result) ==
    LET c  == CopyOfMatrix(h)
        h1 == [c.heap EXCEPT !.objs[c.ref] = TopLeft(result, NumRows(@), NumCols(@))]
    IN  [heap |-> NewObject(h1, result), ref |-> FreshRef(h1)]

\* np.vstack([matrix, new]), np.column_stack([matrix, new]): a new array
ObjStack(h, result) == [heap |-> NewObject(h, result), ref |-> FreshRef(h)]

\* what a call leaves: the outcome a of the function, the array it returns
RwReturn(op, flag, a, R, C, o) ==
    /\ fn' = [fn EXCEPT !.op = op, !.arg = flag, !.exc = a.exc,
                        !.out = <<IF a.exc = "none" THEN o.ref ELSE 0, Sorted(R), Sorted(C)>>]
    /\ heap' = IF a.exc = "none" THEN o.heap ELSE heap
    /\ UNCHANGED <<globals, rt, gs>>

Rw_apply_abs_rule ==
    /\ fn.op = "none"
    /\ \E R \in SUBSET RowIdx(fn.in) : \E C \in SUBSET ColIdx(fn.in) :
       \E select_random_subset \in BOOLEAN :
       \E a \in apply_abs_rule(fn.in, Sorted(R), Sorted(C), select_random_subset) :
          RwReturn("apply_abs_rule", BoolStr(select_random_subset), a, R, C,
                   ObjRewrite(heap, a.mat))

Rw_apply_dual_abs_rule ==
    /\ fn.op = "none"
    /\ \E R \in SUBSET RowIdx(fn.in) : \E C \in SUBSET ColIdx(fn.in) :
       \E select_random_subset \in BOOLEAN :
       \E a \in apply_dual_abs_rule(fn.in, Sorted(R), Sorted(C), select_random_subset) :
          RwReturn("apply_dual_abs_rule", BoolStr(select_random_subset), a, R, C,
                   ObjRewrite(heap, a.mat))

Rw_add_row ==
    /\ fn.op = "none"
    /\ \E a \in add_row(fn.in) :
          RwReturn("add_row", "", a, {}, {}, ObjStack(heap, a.mat))

Rw_add_column ==
    /\ fn.op = "none"
    /\ \E a \in add_column(fn.in) :
          RwReturn("add_column", "", a, {}, {}, ObjStack(heap, a.mat))

\* the caller changes the array it got back, in place
Rw_change_result ==
    /\ fn.op \in {"apply_abs_rule", "apply_dual_abs_rule", "add_row", "add_column"}
    /\ fn.exc = "none"
    /\ fn' = [fn EXCEPT !.op = "result_changed"]
    /\ heap' = [heap EXCEPT !.objs[fn.out[1]][1][1] = 7]
    /\ UNCHANGED <<globals, rt, gs>>

NextRewrite ==
    \/ Rw_apply_abs_rule
    \/ Rw_apply_dual_abs_rule
    \/ Rw_add_row
    \/ Rw_add_column
    \/ Rw_change_result

SpecRewrite == InitRewrite /\ [][NextRewrite]_vars

\* --------------------------------------------- apply/undo round trips
\* SpecUndo runs the engine to any state, then observes a round trip: it
\* records the live matrix and log, lets apply_rule be called some number
\* of times and then pop_undo_snapshot at most as many times.
RT_Setup ==
    /\ rt.phase = "idle"
    /\ \/ Call_reset_history
       \/ Call_init_net
       \/ Call_apply_rule
       \/ Call_pop_undo_snapshot

RT_Begin ==
    /\ rt.phase = "idle"
    /\ matrix # None
    /\ rt' = [phase |-> "apply", matrix |-> matrix, log |-> log,
              applied |-> 0, undone |-> 0, moved |-> FALSE]
    /\ UNCHANGED <<engine, gs, fn>>

RT_Apply ==
    /\ rt.phase = "apply"
    /\ RoomToApply
    /\ \E r \in RuleNames : \E o \in apply_rule(State, r) :
          /\ WithinBounds(o)
          /\ BecomesObserved(o, "apply_rule", 0)
          /\ rt' = [rt EXCEPT !.applied = @ + 1,
                              !.moved = @ \/ o.st.matrix # rt.matrix]

RT_Undo ==
    /\ rt.phase \in {"apply", "undo"}
    /\ rt.undone < rt.applied
    /\ BecomesObserved(pop_undo_snapshot(State), "pop_undo_snapshot", 0)
    /\ rt' = [rt EXCEPT !.phase = "undo", !.undone = @ + 1]

NextUndo ==
    \/ RT_Setup
    \/ RT_Begin
    \/ RT_Apply
    \/ RT_Undo

SpecUndo == Init /\ [][NextUndo]_vars

\* ------------------------------------------------ pure function calls
\* SpecFn calls the pure functions of the matrix model on every matrix over
\* {-1,0,1} of the bounded sizes, and on the seed of generate_initial_matrix.
FnInputs ==
    UNION {[1 .. s[1] -> [1 .. s[2] -> {-1, 0, 1}]] :
              s \in {x \in (1 .. MaxFnRows) \X (1 .. MaxFnCols) : x[1] * x[2] <= MaxFnCells}}

\* integer matrices with cells outside {-1,0,1} as well
FnWideInputs ==
    UNION {[1 .. s[1] -> [1 .. s[2] -> {-1, 0, 1, 2}]] : s \in {<<2, 1>>, <<3, 1>>, <<2, 2>>}}

InitFn ==
    /\ EngineInit
    /\ rt = RtIdle
    /\ gs = GsIdle
    /\ fn \in {[op |-> "none", in |-> M, arg |-> "", exc |-> "none", out |-> <<>>] :
                    M \in FnInputs \cup FnWideInputs}

\* generate_initial_matrix(): the assert fails on an invalid seed
Fn_generate_initial_matrix ==
    /\ fn.op = "none"
    /\ fn' = [op  |-> "generate_initial_matrix",
              in  |-> generate_initial_matrix,
              arg |-> "",
              exc |-> IF is_valid_matrix(generate_initial_matrix)
                      THEN "none" ELSE "AssertionError",
              out |-> generate_initial_matrix]
    /\ UNCHANGED <<engine, rt, gs>>

Fn_is_valid_matrix ==
    /\ fn.op \in {"none", "generate_initial_matrix"}
    /\ fn.exc = "none"
    /\ fn' = [fn EXCEPT !.op = "is_valid_matrix", !.out = <<is_valid_matrix(fn.in)>>]
    /\ UNCHANGED <<engine, rt, gs>>

Fn_get_source_sink_indices ==
    /\ fn.op \in {"none", "generate_initial_matrix"}
    /\ fn.exc = "none"
    /\ fn' = IF get_source_sink_raises(fn.in)
             THEN [fn EXCEPT !.op = "get_source_sink_indices", !.exc = "IndexError"]
             ELSE [fn EXCEPT !.op = "get_source_sink_indices",
                             !.out = get_source_sink_indices(fn.in)]
    /\ UNCHANGED <<engine, rt, gs>>

\* create_pn_from_incidence_mat(fn.in, return_net_dict=flag), called twice on
\* equal matrices: out is <<net, im, fm, net of the second call>>; without
\* the net dictionary only the net is returned and nothing can raise
Fn_create_pn_from_incidence_mat ==
    /\ fn.op = "none"
    /\ \E return_net_dict \in BOOLEAN :
          fn' = IF ~ return_net_dict
                THEN [fn EXCEPT !.op = "create_pn_from_incidence_mat", !.arg = "False",
                                !.out = <<NetOf(fn.in), None, None, NetOf(fn.in)>>]
                ELSE IF create_pn_raises(fn.in)
                THEN [fn EXCEPT !.op = "create_pn_from_incidence_mat", !.arg = "True",
                                !.exc = "IndexError"]
                ELSE LET d  == create_pn_from_incidence_mat(fn.in)
                         d2 == create_pn_from_incidence_mat(fn.in)
                     IN  [fn EXCEPT !.op = "create_pn_from_incidence_mat", !.arg = "True",
                                    !.out = <<d.petri, d.im, d.fm, d2.petri>>]
    /\ UNCHANGED <<engine, rt, gs>>

NextFn ==
    \/ Fn_generate_initial_matrix
    \/ Fn_is_valid_matrix
    \/ Fn_get_source_sink_indices
    \/ Fn_create_pn_from_incidence_mat

SpecFn == InitFn /\ [][NextFn]_vars

\* ------------------------------------- region finder and abstraction
\* SpecRegion calls find_connected_cells on the same inputs, then
\* apply_abs_rule on the region found, and the dispatch of apply_rule for
\* the two abstraction rules.
IntStr(v) == IF v = 1 THEN "1" ELSE "-1"

\* find_connected_cells(fn.in, target_value): out is <<rows, cols>>
Fn_find_connected_cells ==
    /\ fn.op = "none"
    /\ \E target_value \in {1, -1} : \E f \in find_connected_cells(fn.in, target_value) :
          fn' = [fn EXCEPT !.op = "find_connected_cells", !.arg = IntStr(target_value),
                           !.exc = f.exc, !.out = <<f.rows, f.cols>>]
    /\ UNCHANGED <<engine, rt, gs>>

\* apply_abs_rule(fn.in, rows, cols) on the region just found: out is
\* <<the new matrix>>
Fn_apply_abs_rule ==
    /\ fn.op = "find_connected_cells"
    /\ fn.exc = "none"
    /\ \E select_random_subset \in BOOLEAN :
       \E a \in apply_abs_rule(fn.in, fn.out[1], fn.out[2], select_random_subset) :
          fn' = [fn EXCEPT !.op = "apply_abs_rule", !.exc = a.exc,
                           !.out = IF a.exc = "none" THEN <<a.mat>> ELSE <<>>]
    /\ UNCHANGED <<engine, rt, gs>>

\* apply_dual_abs_rule(fn.in, rows, cols) on the region just found
Fn_apply_dual_abs_rule ==
    /\ fn.op = "find_connected_cells"
    /\ fn.exc = "none"
    /\ \E select_random_subset \in BOOLEAN :
       \E a \in apply_dual_abs_rule(fn.in, fn.out[1], fn.out[2], select_random_subset) :
          fn' = [fn EXCEPT !.op = "apply_dual_abs_rule", !.exc = a.exc,
                           !.out = IF a.exc = "none" THEN <<a.mat>> ELSE <<>>]
    /\ UNCHANGED <<engine, rt, gs>>

\* the dispatch of apply_rule(rule_name) on the live matrix fn.in, for the
\* abstraction rules: out is <<the matrix assigned to _current_matrix>>
Fn_Dispatch ==
    /\ fn.op = "none"
    /\ \E rule_name \in {"psiA", "psiD"} : \E d \in Dispatch(fn.in, rule_name) :
          fn' = [fn EXCEPT !.op = "Dispatch", !.arg = rule_name, !.exc = d.exc,
                           !.out = IF d.exc = "none" THEN <<d.mat>> ELSE <<>>]
    /\ UNCHANGED <<engine, rt, gs>>

NextRegion ==
    \/ Fn_find_connected_cells
    \/ Fn_apply_abs_rule
    \/ Fn_apply_dual_abs_rule
    \/ Fn_Dispatch

SpecRegion == InitFn /\ [][NextRegion]_vars

\* ------------------------------------------ add_row / add_column, stepwise
\* SpecGrowth follows one call of add_row or add_column loop iteration by
\* loop iteration.  The soundness oracle (woflan) is external: it answers
\* either way ("any"), or is the synthetic oracle that rejects every
\* candidate ("reject").
\* the matrices growth starts from: the chains of init_net(2,1), (3,2) and
\* (4,3), and the seed of generate_initial_matrix
GrowthSeeds ==
    {ChainMatrix(2, 1), ChainMatrix(3, 2), ChainMatrix(4, 3), generate_initial_matrix}

GsStart(kind, M, max_attempts, oracle, regrown) ==
    [pc |-> IF kind = "column" /\ get_source_sink_raises(M) THEN "raised" ELSE "random",
     kind |-> kind, mat |-> M, max_attempts |-> max_attempts, oracle |-> oracle,
     attempts |-> 0, scan |-> {}, passes |-> 0, fallback_steps |-> 0,
     result |-> None, regrown |-> regrown,
     asked |-> None, answer |-> FALSE, oracle_calls |-> 0]

GsCalls(M, regrown) ==
    {GsStart(kind, M, ma, orc, regrown) :
        kind \in {"row", "column"}, ma \in 0 .. MaxAttempts, orc \in {"any", "reject"}}

InitGrowth ==
    /\ EngineInit
    /\ rt = RtIdle
    /\ fn = FnIdle
    /\ gs \in UNION {GsCalls(M, 0) : M \in GrowthSeeds}

\* the number of existing rows (add_row) or columns (add_column)
GsExisting(g) == IF g.kind = "row" THEN NumRows(g.mat) ELSE NumCols(g.mat)

\* the candidate of a coefficient vector, and the existing row/column i
GsCombination(g, k) ==
    IF g.kind = "row" THEN RowCombination(g.mat, k) ELSE ColCombination(g.mat, k)
GsExistingVector(g, i) ==
    IF g.kind = "row" THEN RowOf(g.mat, i) ELSE ColOf(g.mat, i)

\* one loop iteration on the candidate new; next is the frame the loop goes
\* on with.  asked is the matrix handed to woflan.apply in this iteration
\* (None when it was not called), answer what it returned, oracle_calls the
\* number of its calls since add_row / add_column was entered.
GsExamine(g, new, next) ==
    LET verdict  == IF g.kind = "row" THEN RowVerdict(g.mat, new) ELSE ColVerdict(g.mat, new)
        cand     == IF g.kind = "row" THEN VStack(g.mat, new) ELSE ColumnStack(g.mat, new)
        skipped  == [next EXCEPT !.asked = None, !.answer = FALSE]
        rejected == [next EXCEPT !.asked = cand, !.answer = FALSE, !.oracle_calls = @ + 1]
        accepted == [rejected EXCEPT !.pc = "returned", !.result = cand, !.answer = TRUE]
    IN  CASE verdict = "False"      -> {skipped}
          [] verdict = "IndexError" -> {[skipped EXCEPT !.pc = "raised"]}
          [] verdict = "oracle"     ->
                IF g.oracle = "reject" THEN {rejected} ELSE {rejected, accepted}

\* for _ in range(max_attempts): one randomized attempt
G_RandomAttempt ==
    /\ gs.pc = "random"
    /\ gs.attempts < gs.max_attempts
    /\ \E new \in {GsCombination(gs, k) : k \in Coeffs(GsExisting(gs))} :
          gs' \in GsExamine(gs, new, [gs EXCEPT !.attempts = @ + 1])
    /\ UNCHANGED <<engine, rt, fn>>

\* the budget is used up: the first pass of the fallback scan starts
G_EnterFallback ==
    /\ gs.pc = "random"
    /\ gs.attempts = gs.max_attempts
    /\ gs' = [gs EXCEPT !.pc = "fallback", !.passes = 1,
                        !.scan = 0 .. (GsExisting(gs) - 1)]
    /\ UNCHANGED <<engine, rt, fn>>

\* for row in matrix[np.random.permutation(num_rows)]: the next one
G_FallbackStep ==
    /\ gs.pc = "fallback"
    /\ \E i \in gs.scan :
          gs' \in GsExamine(gs, GsExistingVector(gs, i),
                            [gs EXCEPT !.scan = @ \ {i}, !.fallback_steps = @ + 1])
    /\ UNCHANGED <<engine, rt, fn>>

\* while True: the pass is over, the next one starts
G_FallbackRestart ==
    /\ gs.pc = "fallback"
    /\ gs.scan = {}
    /\ gs.passes < MaxPasses
    /\ gs' = [gs EXCEPT !.passes = @ + 1, !.scan = 0 .. (GsExisting(gs) - 1)]
    /\ UNCHANGED <<engine, rt, fn>>

\* the caller grows the returned matrix again
G_Regrow ==
    /\ gs.pc = "returned"
    /\ gs.regrown < MaxRegrow
    /\ NumRows(gs.result) * NumCols(gs.result) <= MaxGrowCells
    /\ gs' \in GsCalls(gs.result, gs.regrown + 1)
    /\ UNCHANGED <<engine, rt, fn>>

NextGrowth ==
    \/ G_RandomAttempt
    \/ G_EnterFallback
    \/ G_FallbackStep
    \/ G_FallbackRestart
    \/ G_Regrow

SpecGrowth == InitGrowth /\ [][NextGrowth]_vars

\* ------------------------------------------------------------- claims

\* C1: starting from a live matrix that satisfies is_valid_matrix, after any
\* sequence of apply_rule and pop_undo_snapshot calls the live matrix still
\* satisfies is_valid_matrix.
C1_RulesPreserveValidity ==
    (rt.phase # "idle" /\ is_valid_matrix(rt.matrix)) => is_valid_matrix(matrix)

\* C2: whenever apply_rule raises, the live matrix, the derived net, the
\* markings and the log are what they were before the call.
C2_ApplyAllOrNothing ==
    [][(last' = "apply_rule" /\ exc' # "none") => live' = live]_vars

\* C3: after n apply_rule calls followed by n pop_undo_snapshot calls the
\* live matrix and the log equal the matrix and log before the sequence.
C3_UndoRoundTrip ==
    (rt.phase # "idle" /\ rt.undone = rt.applied)
        => (matrix = rt.matrix /\ log = rt.log)

\* a round trip of two applications that changed the matrix, fully undone
C3_Witness ==
    /\ rt.phase = "undo"
    /\ rt.applied = 2
    /\ rt.undone = 2
    /\ rt.moved

\* C4: pop_undo_snapshot on an empty undo stack raises UndoEmpty and leaves
\* the live matrix, net, markings, log and undo stack unchanged; /undo
\* answers 400.
C4_UndoEmptyIsHarmless ==
    [][(last' = "pop_undo_snapshot" /\ undo_stack = <<>>)
          => /\ exc' = "UndoEmpty"
             /\ live' = live
             /\ undo_stack' = undo_stack
             /\ (http' # 0 => http' = 400)]_vars

\* /undo answered 400 on a freshly initialized net
C4_Witness ==
    /\ last = "pop_undo_snapshot"
    /\ exc = "UndoEmpty"
    /\ http = 400
    /\ undo_stack = <<>>
    /\ matrix # None

\* the row or column a returned matrix adds to the input
GsAdded(g) ==
    IF g.kind = "row" THEN RowOf(g.result, NumRows(g.result) - 1)
    ELSE ColOf(g.result, NumCols(g.result) - 1)
ExistingCols(M) == {ColOf(M, c) : c \in ColIdx(M)}

\* C5: neither add_row nor add_column returns a matrix whose added row
\* (column) is the exact negation of a row (column) of the input.
C5_NoNegationAccepted ==
    gs.pc = "returned" =>
        Negated(GsAdded(gs)) \notin
            (IF gs.kind = "row" THEN ExistingRows(gs.mat) ELSE ExistingCols(gs.mat))

\* C6: if the input matrix is free-choice, every matrix returned by add_row
\* or add_column is free-choice.
C6_GrowthKeepsFreeChoice ==
    (gs.pc = "returned" /\ is_fc_net_from_mat(gs.mat)) => is_fc_net_from_mat(gs.result)

\* C7: with an oracle that rejects every candidate the fallback scan gives
\* up after at most as many steps as there are existing rows (columns).
C7_FallbackScanIsBounded ==
    (gs.oracle = "reject" /\ gs.pc = "fallback")
        => (gs.passes <= 1 /\ gs.fallback_steps <= GsExisting(gs))

\* C8: the seed matrix returned by generate_initial_matrix satisfies
\* is_valid_matrix: the assert inside generate_initial_matrix passes, and
\* is_valid_matrix called on the returned seed answers True.
C8_SeedIsValid ==
    /\ fn.op = "generate_initial_matrix" => fn.exc = "none"
    /\ (fn.op = "is_valid_matrix" /\ fn.in = generate_initial_matrix) => fn.out = <<TRUE>>

\* is_valid_matrix was called on the seed that generate_initial_matrix returned
C8_Witness ==
    /\ fn.op = "is_valid_matrix"
    /\ fn.in = << <<1, 0, 1>>, <<-1, 1, 0>>, <<0, -1, -1>> >>
    /\ Len(fn.out) = 1

\* C9 as claimed: for the seed matrix get_source_sink_indices returns source
\* row index 1 and sink row index 2.
C9_SeedSourceSinkAsClaimed ==
    (fn.op = "get_source_sink_indices" /\ fn.in = generate_initial_matrix)
        => (fn.exc = "none" /\ fn.out = <<1, 2>>)

\* C9 amended: for the seed matrix get_source_sink_indices returns source
\* row index 2 and sink row index 0.
C9_SeedSourceSink ==
    (fn.op = "get_source_sink_indices" /\ fn.in = generate_initial_matrix)
        => (fn.exc = "none" /\ fn.out = <<2, 0>>)

\* get_source_sink_indices returned for the seed
C9_Witness ==
    /\ fn.op = "get_source_sink_indices"
    /\ fn.in = generate_initial_matrix
    /\ fn.exc = "none"

\* the rows that contain no cell equal to v
RowsWithout(M, v) == {r \in RowIdx(M) : \A c \in ColIdx(M) : Cell(M, r, c) # v}

\* C10 as claimed: for every valid matrix the source index is the unique row
\* with no -1 cell and the sink index the unique row with no +1 cell.
C10_SourceSinkAsClaimed ==
    (fn.op = "get_source_sink_indices" /\ is_valid_matrix(fn.in))
        => /\ fn.exc = "none"
           /\ RowsWithout(fn.in, -1) = {fn.out[1]}
           /\ RowsWithout(fn.in, 1) = {fn.out[2]}

\* C10 amended: for every valid matrix the source index is the unique row
\* with no +1 cell and the sink index the unique row with no -1 cell.
C10_SourceSink ==
    (fn.op = "get_source_sink_indices" /\ is_valid_matrix(fn.in))
        => /\ fn.exc = "none"
           /\ RowsWithout(fn.in, 1) = {fn.out[1]}
           /\ RowsWithout(fn.in, -1) = {fn.out[2]}

\* get_source_sink_indices returned for a valid two-column matrix whose
\* source is not its first row
C10_Witness ==
    /\ fn.op = "get_source_sink_indices"
    /\ is_valid_matrix(fn.in)
    /\ NumCols(fn.in) = 2
    /\ fn.exc = "none"
    /\ fn.out[1] # 0

\* the places of a net <<places, transitions, arcs>> without an incoming /
\* without an outgoing arc
PlacesWithoutIncoming(n) == {p \in n[1] : ~ \E a \in n[3] : a[2] = p}
PlacesWithoutOutgoing(n) == {p \in n[1] : ~ \E a \in n[3] : a[1] = p}

C12_NetIsProjection ==
    (fn.op = "create_pn_from_incidence_mat" /\ fn.exc = "none")
        => LET places == fn.out[1][1]
               transitions == fn.out[1][2]
               arcs == fn.out[1][3]
           IN  /\ Cardinality(places) = NumRows(fn.in)
               /\ Cardinality(transitions) = NumCols(fn.in)
               /\ \A r \in RowIdx(fn.in) : \A c \in ColIdx(fn.in) :
                     /\ (<<PlaceName(r), TransName(c)>> \in arcs) <=> (Cell(fn.in, r, c) = -1)
                     /\ (<<TransName(c), PlaceName(r)>> \in arcs) <=> (Cell(fn.in, r, c) = 1)
               /\ arcs \subseteq (places \X transitions) \cup (transitions \X places)
               /\ places = {PlaceName(r) : r \in RowIdx(fn.in)}
               /\ transitions = {TransName(c) : c \in ColIdx(fn.in)}
               /\ fn.out[4] = fn.out[1]

\* a net with arcs in both directions was built from a 3 x 2 matrix
C12_Witness ==
    /\ fn.op = "create_pn_from_incidence_mat" /\ fn.exc = "none"
    /\ NumRows(fn.in) = 3 /\ NumCols(fn.in) = 2
    /\ <<PlaceName(0), TransName(1)>> \in fn.out[1][3]
    /\ <<TransName(0), PlaceName(2)>> \in fn.out[1][3]
    /\ Cardinality(fn.out[1][3]) = 4

\* the structural conditions of a workflow-net matrix, as the claim lists them
WellFormed(M) ==
    /\ \A r \in RowIdx(M) : \A c \in ColIdx(M) : Cell(M, r, c) \in {-1, 0, 1}
    /\ \A r \in RowIdx(M) : \E c \in ColIdx(M) : Cell(M, r, c) # 0
    /\ \A c \in ColIdx(M) : \E r \in RowIdx(M) : Cell(M, r, c) # 0
    /\ Cardinality(RowsWithout(M, 1)) = 1
    /\ Cardinality(RowsWithout(M, -1)) = 1
    /\ \A c \in ColIdx(M) : (\E r \in RowIdx(M) : Cell(M, r, c) = -1)
                              /\ (\E r \in RowIdx(M) : Cell(M, r, c) = 1)

\* C13: is_valid_matrix(M) returns true exactly when every cell is in
\* {-1,0,1}, no row and no column is all-zero, exactly one row has no +1
\* cell, exactly one row has no -1 cell and every column has a -1 and a +1;
\* for every other integer matrix it returns false, and it never raises.
C13_ValidIffWellFormed ==
    fn.op = "is_valid_matrix" => (fn.exc = "none" /\ fn.out = <<WellFormed(fn.in)>>)

\* is_valid_matrix answered False on a matrix holding a cell outside {-1,0,1}
C13_Witness ==
    /\ fn.op = "is_valid_matrix"
    /\ fn.out = <<FALSE>>
    /\ \E r \in RowIdx(fn.in) : \E c \in ColIdx(fn.in) : Cell(fn.in, r, c) = 2
    /\ \A c \in ColIdx(fn.in) : (\E r \in RowIdx(fn.in) : Cell(fn.in, r, c) = -1)
                                  /\ (\E r \in RowIdx(fn.in) : Cell(fn.in, r, c) = 1)

\* M has exactly one cell equal to +1 and no two identical columns
OnePlusOneCell(M) ==
    /\ Cardinality(CellsEqual(M, 1)) = 1
    /\ \A c1 \in ColIdx(M) : \A c2 \in ColIdx(M) : c1 # c2 => ColOf(M, c1) # ColOf(M, c2)

\* C14: for every matrix with exactly one cell equal to +1, at (r,c), and no
\* two identical columns, find_connected_cells(M, +1) returns rows=[r] and
\* cols=[c]; apply_abs_rule on that region then yields a matrix with one
\* more row and one more column whose new column has -1 only at the new row.
C14_SinglePlusOneRegion ==
    /\ (fn.op = "find_connected_cells" /\ fn.arg = "1" /\ OnePlusOneCell(fn.in))
          => /\ fn.exc = "none"
             /\ \E x \in CellsEqual(fn.in, 1) : fn.out = << <<x[1]>>, <<x[2]>> >>
    /\ (fn.op = "apply_abs_rule" /\ fn.arg = "1" /\ OnePlusOneCell(fn.in))
          => /\ fn.exc = "none"
             /\ NumRows(fn.out[1]) = NumRows(fn.in) + 1
             /\ NumCols(fn.out[1]) = NumCols(fn.in) + 1
             /\ RowsWith(fn.out[1], NumCols(fn.in), -1) = {NumRows(fn.in)}

\* C20: apply_rule with rule psiA selects its fold region among cells equal
\* to +1 and with rule psiD among cells equal to -1: every cell zeroed by
\* psiA was +1 and every cell zeroed by psiD was -1.
C20_RulesFoldTheirOwnSign ==
    (fn.op = "Dispatch" /\ fn.exc = "none")
        => \A r \in RowIdx(fn.in) : \A c \in ColIdx(fn.in) :
              (Cell(fn.in, r, c) # 0 /\ Cell(fn.out[1], r, c) = 0)
                  => Cell(fn.in, r, c) = (IF fn.arg = "psiA" THEN 1 ELSE -1)

\* C15: every operation that changes the live matrix (init_net and
\* apply_rule) first pushes a snapshot of the pre-operation matrix and log
\* onto the undo stack, so that one pop_undo_snapshot restores the state
\* before it.  Stated for operations on an initialized net, where there is
\* a state to restore.
C15_MutationsPushSnapshot ==
    [][(matrix # None /\ last' \in {"init_net", "apply_rule"} /\ matrix' # matrix)
          => /\ Len(undo_stack') = Len(undo_stack) + 1
             /\ undo_stack'[Len(undo_stack')][1] = matrix
             /\ undo_stack'[Len(undo_stack')][5] = log]_vars

\* C17: in every state with an initialized net the live net and markings
\* are create_pn_from_incidence_mat of the live matrix.
C17_NetIsProjectionOfMatrix ==
    matrix # None
        => /\ ~ create_pn_raises(matrix)
           /\ net = create_pn_from_incidence_mat(matrix).petri
           /\ im = create_pn_from_incidence_mat(matrix).im
           /\ fm = create_pn_from_incidence_mat(matrix).fm

\* C18: after any sequence of reset_history, init_net, apply_rule and
\* pop_undo_snapshot the k-th log entry has id k: no gaps, no repeated ids.
C18_LogIdsSequential ==
    \A k \in 1 .. Len(log) : log[k].id = k

\* an undo restored a log of two entries
C18_Witness ==
    /\ last = "pop_undo_snapshot"
    /\ exc = "none"
    /\ Len(log) = 2
    /\ log[2].id = 2

\* C19: after every init_net call that returns without error the live
\* matrix satisfies is_valid_matrix.
C19_InitNetIsValid ==
    (last = "init_net" /\ exc = "none") => is_valid_matrix(matrix)

\* C16: no snapshot on the undo stack aliases live state: in every reachable
\* state the matrix and the log of each stored snapshot are objects other
\* than the live ones and still hold the values the live matrix and log had
\* when the snapshot was pushed (the entries of undo_stack), whatever
\* apply_rule, init_net, undo or log appends happened afterwards.
C16_SnapshotsOwnTheirCopies ==
    /\ Len(heap.stack) = Len(undo_stack)
    /\ \A i \in 1 .. Len(heap.stack) :
          /\ heap.stack[i][1] # heap.m
          /\ heap.stack[i][2] # heap.l
          /\ heap.objs[heap.stack[i][1]] = undo_stack[i][1]
          /\ heap.objs[heap.stack[i][2]] = undo_stack[i][5]

\* a log entry was appended in place by init_net while two snapshots, taken
\* with a shorter log, are on the stack
C16_Witness ==
    /\ Len(heap.stack) = 2
    /\ last = "init_net"
    /\ exc = "none"
    /\ Len(heap.objs[heap.l]) = 2
    /\ Len(heap.objs[heap.stack[2][2]]) = 1

\* C21: for every valid matrix M, the matrix obtained by apply_abs_rule on
\* the region find_connected_cells(M, +1), or by apply_dual_abs_rule on the
\* region find_connected_cells(M, -1), with or without random subsetting,
\* satisfies is_valid_matrix.
C21_AbstractionKeepsValidity ==
    ((\/ fn.op = "apply_abs_rule" /\ fn.arg = "1"
      \/ fn.op = "apply_dual_abs_rule" /\ fn.arg = "-1")
     /\ fn.exc = "none" /\ is_valid_matrix(fn.in))
        => is_valid_matrix(fn.out[1])

\* the target value of a find_connected_cells call
TargetOf(f) == IF f.arg = "1" THEN 1 ELSE -1

\* C22: for every valid matrix M and v in {-1,+1}, the region (rows, cols)
\* returned by find_connected_cells(M, v) is a full block of matching cells:
\* every cell (r,c) with r in rows and c in cols equals v.
C22_RegionIsFullBlock ==
    (fn.op = "find_connected_cells" /\ fn.exc = "none" /\ is_valid_matrix(fn.in))
        => \A r \in SeqRange(fn.out[1]) : \A c \in SeqRange(fn.out[2]) :
              Cell(fn.in, r, c) = TargetOf(fn)

\* the rows and columns linked to the cell x by a chain of v-cells: the
\* least sets holding x that are closed under "shares a v-cell with"
RECURSIVE LinkedTo(_, _, _, _)
LinkedTo(M, v, rs, cs) ==
    LET more_cs == {c \in ColIdx(M) : \E r \in rs : Cell(M, r, c) = v}
        more_rs == {r \in RowIdx(M) : \E c \in cs : Cell(M, r, c) = v}
    IN  IF more_cs \subseteq cs /\ more_rs \subseteq rs THEN <<rs, cs>>
        ELSE LinkedTo(M, v, rs \cup more_rs, cs \cup more_cs)

Ascending(q) == \A i \in 1 .. Len(q) : \A j \in 1 .. Len(q) : i < j => q[i] < q[j]

\* C23: for every matrix with at least one cell equal to v,
\* find_connected_cells(M, v) returns without error ascending index lists
\* that contain a seed cell equal to v, are closed under "has a v-cell in a
\* returned row / column" and are minimal (all linked to the seed by a chain
\* of v-cells); when no cell equals v it returns two empty lists.
C23_RegionIsClosure ==
    fn.op = "find_connected_cells"
        => /\ fn.exc = "none"
           /\ Ascending(fn.out[1]) /\ Ascending(fn.out[2])
           /\ IF CellsEqual(fn.in, TargetOf(fn)) = {}
              THEN fn.out = << <<>>, <<>> >>
              ELSE \E x \in CellsEqual(fn.in, TargetOf(fn)) :
                      /\ x[1] \in SeqRange(fn.out[1])
                      /\ x[2] \in SeqRange(fn.out[2])
                      /\ LinkedTo(fn.in, TargetOf(fn), {x[1]}, {x[2]})
                            = <<SeqRange(fn.out[1]), SeqRange(fn.out[2])>>

\* N is M with the cells of R x C zeroed, one more row and one more column
\* holding sign * row_sign at the rows / columns chosen and corner where
\* they meet
FoldedInto(M, N, R, C, row_value, col_value, corner) ==
    /\ NumRows(N) = NumRows(M) + 1
    /\ NumCols(N) = NumCols(M) + 1
    /\ \A r \in RowIdx(M) : \A c \in ColIdx(M) :
          Cell(N, r, c) = (IF r \in R /\ c \in C THEN 0 ELSE Cell(M, r, c))
    /\ \A c \in ColIdx(M) : Cell(N, NumRows(M), c) = (IF c \in C THEN row_value ELSE 0)
    /\ \A r \in RowIdx(M) : Cell(N, r, NumCols(M)) = (IF r \in R THEN col_value ELSE 0)
    /\ Cell(N, NumRows(M), NumCols(M)) = corner

\* C24: apply_abs_rule(M, R, C) without random subsetting returns a matrix
\* with one more row and column in which the cells of R x C are 0, the new
\* last row is 1 exactly at the columns in C, the new last column is 1
\* exactly at the rows in R and -1 at the new row, and every other cell
\* equals M; with random subsetting (of non-empty R and C) the same holds
\* for some non-empty subsets of R and of C.
C24_AbsRuleRewrite ==
    fn.op = "apply_abs_rule"
        => LET R == SeqRange(fn.out[2])
               C == SeqRange(fn.out[3])
           IN  IF fn.arg = "False"
               THEN /\ fn.exc = "none"
                    /\ FoldedInto(fn.in, heap.objs[fn.out[1]], R, C, 1, 1, -1)
               ELSE (R # {} /\ C # {})
                       => /\ fn.exc = "none"
                          /\ \E R2 \in NonEmptySubsets(R) : \E C2 \in NonEmptySubsets(C) :
                                FoldedInto(fn.in, heap.objs[fn.out[1]], R2, C2, 1, 1, -1)

\* apply_abs_rule folded a proper part of a two-row, two-column region
C24_Witness ==
    /\ fn.op = "apply_abs_rule" /\ fn.arg = "True" /\ fn.exc = "none"
    /\ Len(fn.out[2]) = 2 /\ Len(fn.out[3]) = 2
    /\ fn.in[1] = <<1, -1>>
    /\ FoldedInto(fn.in, heap.objs[fn.out[1]], {0}, {0, 1}, 1, 1, -1)

\* C25: apply_dual_abs_rule(M, R, C) without random subsetting returns a
\* matrix with one more row and column in which the cells of R x C are 0,
\* the new last column is -1 exactly at the rows in R, the new last row is
\* -1 exactly at the columns in C and +1 at the new column, and every other
\* cell equals M; with random subsetting exactly one of R and C is replaced
\* by a non-empty subset of itself.
C25_DualAbsRuleRewrite ==
    fn.op = "apply_dual_abs_rule"
        => LET R == SeqRange(fn.out[2])
               C == SeqRange(fn.out[3])
           IN  IF fn.arg = "False"
               THEN /\ fn.exc = "none"
                    /\ FoldedInto(fn.in, heap.objs[fn.out[1]], R, C, -1, -1, 1)
               ELSE /\ (R # {} /\ C # {}) => fn.exc = "none"
                    /\ fn.exc = "none"
                          => \/ \E C2 \in NonEmptySubsets(C) :
                                  FoldedInto(fn.in, heap.objs[fn.out[1]], R, C2, -1, -1, 1)
                             \/ \E R2 \in NonEmptySubsets(R) :
                                  FoldedInto(fn.in, heap.objs[fn.out[1]], R2, C, -1, -1, 1)

\* apply_dual_abs_rule kept both columns and folded one of two rows
C25_Witness ==
    /\ fn.op = "apply_dual_abs_rule" /\ fn.arg = "True" /\ fn.exc = "none"
    /\ Len(fn.out[2]) = 2 /\ Len(fn.out[3]) = 2
    /\ fn.in[2] = <<-1, 1>>
    /\ FoldedInto(fn.in, heap.objs[fn.out[1]], {1}, {0, 1}, -1, -1, 1)

\* C29: the rule functions are pure: apply_abs_rule, apply_dual_abs_rule,
\* add_row and add_column never modify the array passed to them, and the
\* array they return is another object, so a later change of the result
\* does not show in the input.
C29_RulesArePure ==
    fn.op # "none"
        => /\ heap.objs[heap.m] = fn.in
           /\ fn.exc = "none" => fn.out[1] # heap.m

\* the result of a rule that zeroed a cell of its input was changed in place
C29_Witness ==
    /\ fn.op = "result_changed"
    /\ Len(fn.out[2]) > 0 /\ Len(fn.out[3]) > 0
    /\ Cell(fn.in, fn.out[2][1], fn.out[3][1]) # 0
    /\ Cell(heap.objs[fn.out[1]], 0, 0) = 7
    /\ Cell(heap.objs[heap.m], 0, 0) # 7

\* C26: for every valid matrix M, every matrix returned by add_row(M) or
\* add_column(M) satisfies is_valid_matrix.
C26_GrowthKeepsValidity ==
    (gs.pc = "returned" /\ is_valid_matrix(gs.mat)) => is_valid_matrix(gs.result)

\* a matrix grown by a column was grown again by a row
C26_Witness ==
    /\ gs.pc = "returned" /\ gs.kind = "row" /\ gs.regrown = 1
    /\ NumCols(gs.mat) > 1
    /\ is_valid_matrix(gs.mat) /\ is_valid_matrix(gs.result)

\* the vector add_row / add_column put after the rows / columns of g.mat
GsAddedVector(g) ==
    IF g.kind = "row" THEN RowOf(g.result, NumRows(g.mat))
    ELSE ColOf(g.result, NumCols(g.mat))

\* C27: every matrix returned by add_column(M) has the rows of M and one
\* more column, its first columns equal M cell for cell, the added column
\* has cells in {-1,0,1}, a -1 and a +1, a value in {0,-1} at the source
\* row and in {0,+1} at the sink row (the rows get_source_sink_indices(M)
\* names); every matrix returned by add_row(M) keeps M unchanged and adds
\* one row with cells in {-1,0,1} holding a -1 and a +1.
C27_GrowthFrame ==
    gs.pc = "returned"
        => LET M == gs.mat
               N == gs.result
               v == GsAddedVector(gs)
           IN  /\ \A r \in RowIdx(M) : \A c \in ColIdx(M) : Cell(N, r, c) = Cell(M, r, c)
               /\ SeqRange(v) \subseteq {-1, 0, 1}
               /\ -1 \in SeqRange(v)
               /\ 1 \in SeqRange(v)
               /\ IF gs.kind = "column"
                  THEN /\ NumRows(N) = NumRows(M)
                       /\ NumCols(N) = NumCols(M) + 1
                       /\ v[get_source_sink_indices(M)[1] + 1] \in {0, -1}
                       /\ v[get_source_sink_indices(M)[2] + 1] \in {0, 1}
                  ELSE /\ NumRows(N) = NumRows(M) + 1
                       /\ NumCols(N) = NumCols(M)

\* add_column returned a column that is none of the input's columns
C27_Witness ==
    /\ gs.pc = "returned" /\ gs.kind = "column"
    /\ NumCols(gs.mat) = 2
    /\ \A c \in ColIdx(gs.mat) : ColOf(gs.mat, c) # GsAddedVector(gs)

\* the vector by which the matrix handed to the oracle exceeds g.mat
GsAskedVector(g) ==
    IF g.kind = "row" THEN RowOf(g.asked, NumRows(g.mat))
    ELSE ColOf(g.asked, NumCols(g.mat))

\* C28: during add_row and add_column the soundness oracle is invoked only
\* on candidates that passed the cheap checks and the free-choice check, at
\* most once per candidate examined, and a matrix is returned only if the
\* oracle accepted that very candidate.
C28_OracleComesLast ==
    /\ gs.asked # None
          => /\ gs.asked = (IF gs.kind = "row" THEN VStack(gs.mat, GsAskedVector(gs))
                                               ELSE ColumnStack(gs.mat, GsAskedVector(gs)))
             /\ IF gs.kind = "row"
                THEN validate_new_row(GsAskedVector(gs), ExistingRows(gs.mat))
                ELSE validate_new_column(GsAskedVector(gs),
                                         get_source_sink_indices(gs.mat)[1],
                                         get_source_sink_indices(gs.mat)[2])
             /\ is_fc_net_after_addition(gs.asked, gs.kind)
    /\ gs.oracle_calls <= gs.attempts + gs.fallback_steps
    /\ gs.pc = "returned" => (gs.answer /\ gs.asked = gs.result)
    /\ gs.answer => (gs.pc = "returned" /\ gs.asked # None)

\* the oracle rejected one candidate and accepted a later one, which was returned
C28_Witness ==
    /\ gs.pc = "returned"
    /\ gs.oracle_calls = 2
    /\ gs.attempts + gs.fallback_steps > 2

\* C30: an apply_rule call that raises an error (unknown rule name, empty
\* fold region, or a failure after the dispatch) leaves the undo stack
\* exactly as it was before the call.
C30_FailedApplyKeepsUndoStack ==
    [][(last' = "apply_rule" /\ exc' # "none") => undo_stack' = undo_stack]_vars


====
